---- MODULE Spec2Model ----
(***************************************************************************)
(* A model of manticore/utils/config.py: the process-wide registry of      *)
(* configuration groups and variables, its yml persistence (save,          *)
(* parse_config, load_overrides) and its introspection.                    *)
(*                                                                         *)
(* Python objects are records [t, c, id]: t is the type, c the content     *)
(* and id tells two equal objects apart, so that "a is b" is equality of   *)
(* the whole record and "a == b" is equality of t and c.  A dict is a      *)
(* sequence of [k, v] entries in insertion order.                          *)
(***************************************************************************)
EXTENDS Naturals, Sequences, FiniteSets

VARIABLES
    _groups,    \* config.py:23, the module-level dict: group name -> _group
    fs,         \* the files of the working directory: path -> [exists, doc]
    last,       \* the last call made: its arguments, what it raised, what it returned
    nops,       \* the number of calls made so far
    parser      \* the flags of the parser last given to add_config_vars_to_argparse

vars == <<_groups, fs, last, nops, parser>>

\* The number of calls in one run.
MaxOps == 4

---------------------------------------------------------------------------
(* Python values *)

None == [t |-> "NoneType", c |-> "None", id |-> 0]
Int(c, id) == [t |-> "int", c |-> c, id |-> id]
Str(c) == [t |-> "str", c |-> c, id |-> 0]

\* "a is b"
Is(a, b) == a = b
\* "a == b"
Eq(a, b) == a.t = b.t /\ a.c = b.c
\* bool(a), as "x or y" tests it
Truthy(a) ==
    ~ \/ a.t = "NoneType"
      \/ (a.t = "int" /\ a.c = "0")
      \/ (a.t = "str" /\ a.c = "")
\* "a or b"
Or(a, b) == IF Truthy(a) THEN a ELSE b

\* The objects the callers of a run hold.  OneB is a second int object
\* equal to One (a freshly constructed equal value).
Zero == Int("0", 0)
One == Int("1", 0)
OneB == Int("1", 1)
FortyTwo == Int("42", 0)
\* The string "1": a text that reads as a number.
Text1 == Str("1")
D1 == Str("first description")
D2 == Str("second description")
NoText == Str("")

GroupNames == {"g", "h"}
\* "name" is also an attribute every _group object has (config.py:49).
VarNames == {"x", "name"}

---------------------------------------------------------------------------
(* dicts, in insertion order *)

DictHas(d, k) == \E i \in DOMAIN d : d[i].k = k
DictGet(d, k) == d[CHOOSE i \in DOMAIN d : d[i].k = k].v
DictSet(d, k, v) ==
    IF DictHas(d, k)
    THEN [i \in DOMAIN d |-> IF d[i].k = k THEN [k |-> k, v |-> v] ELSE d[i]]
    ELSE Append(d, [k |-> k, v |-> v])
DictKeys(d) == [i \in DOMAIN d |-> d[i].k]
DictValues(d) == [i \in DOMAIN d |-> d[i].v]

---------------------------------------------------------------------------
(* class _var, class _group *)

\* a _var whose value starts as None whatever the default
_var_value_unset(name, default, description, defined) ==
    [name |-> name, description |-> description, value |-> None,
     default |-> default, defined |-> defined]

_var(name, default, description, defined) ==
    [name |-> name, description |-> description, value |-> default,
     default |-> default, defined |-> defined]

\* was_set by equality instead of identity
was_set_by_equality(var) == ~ Eq(var.value, var.default)

was_set(var) == ~ Is(var.value, var.default)

_group(name) == [name |-> name, _vars |-> <<>>]

\* The result of a call: the exception raised ("" for none), the object the
\* call worked on as it is afterwards, and the value returned.
Result(exc, obj, ret) == [exc |-> exc, obj |-> obj, ret |-> ret]

\* "name in self._vars" taken for "name was declared"
add_defined_declared_only(group, name) ==
    DictHas(group._vars, name) /\ DictGet(group._vars, name).defined

\* config.py:62, the test that makes add raise
add_defined(group, name) == DictHas(group._vars, name)

add(group, name, default, description) ==
    IF add_defined(group, name)
    THEN Result("ConfigError", group, None)
    ELSE Result("", [group EXCEPT !._vars =
                        DictSet(@, name, _var(name, default, description, TRUE))], None)

\* the inherited default chosen by "is None" instead of by truth value
update_default_if_none(group, name, default) ==
    IF DictHas(group._vars, name) /\ default = None
    THEN DictGet(group._vars, name).default
    ELSE default

update_default(group, name, default) ==
    IF DictHas(group._vars, name)
    THEN Or(default, DictGet(group._vars, name).default)
    ELSE default

\* an update that always takes the description it is given
update_description_overwrite(group, name, description) == description

update_description(group, name, description) ==
    IF DictHas(group._vars, name)
    THEN Or(description, DictGet(group._vars, name).description)
    ELSE description

\* an update that keeps the defined flag of the variable it replaces
update_keeping_defined(group, name, value, default, description) ==
    LET v == _var(name, update_default(group, name, default),
                  update_description(group, name, description),
                  DictHas(group._vars, name) /\ DictGet(group._vars, name).defined)
    IN  Result("", [group EXCEPT !._vars = DictSet(@, name, [v EXCEPT !.value = value])],
               None)

update(group, name, value, default, description) ==
    LET v == _var(name, update_default(group, name, default),
                  update_description(group, name, description), FALSE)
    IN  Result("", [group EXCEPT !._vars = DictSet(@, name, [v EXCEPT !.value = value])],
               None)

get_description(group, name) ==
    IF ~ DictHas(group._vars, name)
    THEN Result("ConfigError", group, None)
    ELSE Result("", group, DictGet(group._vars, name).description)

\* updated_vars without its filter
updated_vars_all(group) == DictValues(group._vars)

updated_vars(group) == SelectSeq(DictValues(group._vars), was_set)

\* group.<name>: Python looks the name up on the object and its class first
\* and calls __getattr__ only when that finds nothing, so the attribute
\* "name" set at config.py:49 is what group.name reads (as "_vars" and the
\* method names are; of those only "name" is among VarNames).
__getattr__(group, name) ==
    IF name = "name"
    THEN Result("", group, Str(group.name))
    ELSE IF ~ DictHas(group._vars, name)
         THEN Result("AttributeError", group, None)
         ELSE Result("", group, DictGet(group._vars, name).value)

\* an assignment that creates the variable, as update does
__setattr__creating(group, name, new_value) ==
    Result("", [group EXCEPT !._vars =
                  DictSet(@, name, [_var(name, None, None, FALSE) EXCEPT !.value = new_value])],
           None)

\* group.<name> = new_value: __setattr__ takes every assignment.
\* an attribute write made with update
__setattr__by_update(group, name, new_value) ==
    IF ~ DictHas(group._vars, name)
    THEN Result("KeyError", group, None)
    ELSE update(group, name, new_value, None, None)

__setattr__(group, name, new_value) ==
    IF ~ DictHas(group._vars, name)
    THEN Result("KeyError", group, None)
    ELSE Result("", [group EXCEPT !._vars =
                        DictSet(@, name, [DictGet(@, name) EXCEPT !.value = new_value])],
                None)

---------------------------------------------------------------------------
(* the registry *)

\* a get_group without the test "name in _groups"
get_group_always_new(groups, name) ==
    Result("", DictSet(groups, name, _group(name)), _group(name))

get_group(groups, name) ==
    IF DictHas(groups, name)
    THEN Result("", groups, DictGet(groups, name))
    ELSE Result("", DictSet(groups, name, _group(name)), _group(name))

---------------------------------------------------------------------------
(* yaml.safe_dump and yaml.safe_load, as far as save and parse_config use  *)
(* them.  A document is a tree of nodes: a scalar holds the text written   *)
(* and whether it was written in quotes, a mapping holds its entries, and  *)
(* "invalid" is a text that is no yaml at all.                             *)

Scalar(style, text) == [kind |-> "scalar", style |-> style, text |-> text, items |-> <<>>]
Mapping(items) == [kind |-> "map", style |-> "", text |-> "", items |-> items]
Invalid == [kind |-> "invalid", style |-> "", text |-> "", items |-> <<>>]

\* The texts the resolver reads as something other than a string.
NullTexts == {"null", "~", ""}
IntTexts == {"0", "1", "42"}

\* a representer that never quotes a string
represent_unquoted(v) ==
    IF v.t = "NoneType" THEN Scalar("plain", "null") ELSE Scalar("plain", v.c)

\* The representer: how safe_dump writes one value.
represent(v) ==
    IF v.t = "NoneType" THEN Scalar("plain", "null")
    ELSE IF v.t = "int" THEN Scalar("plain", v.c)
    ELSE IF v.c \in NullTexts \cup IntTexts THEN Scalar("quoted", v.c)
    ELSE Scalar("plain", v.c)

\* The order safe_dump writes the keys of a mapping in: sorted.
Alphabet == <<"g", "h", "name", "x">>
sorted(d) ==
    LET ks == SelectSeq(Alphabet, LAMBDA a : DictHas(d, a))
    IN  [i \in DOMAIN ks |-> [k |-> ks[i], v |-> DictGet(d, ks[i])]]

\* yaml.safe_dump(c) of a dict of dicts of values.
safe_dump(c) ==
    LET section(d) == Mapping([i \in DOMAIN sorted(d) |->
                                 [k |-> sorted(d)[i].k, v |-> represent(sorted(d)[i].v)]])
    IN  Mapping([i \in DOMAIN sorted(c) |->
                   [k |-> sorted(c)[i].k, v |-> section(sorted(c)[i].v)]])

\* The objects the loader makes.  None is the one None; an int is either
\* the interpreter's cached object for that number (the object the callers
\* hold too, id 0) or a new one, as the interpreter chooses.
Dict(items) == [t |-> "dict", c |-> "", id |-> 2, items |-> items]
construct_scalar(node, cached) ==
    IF node.style = "quoted" THEN [Str(node.text) EXCEPT !.id = 2]
    ELSE IF node.text \in NullTexts THEN None
    ELSE IF node.text \in IntTexts THEN Int(node.text, IF cached THEN 0 ELSE 2)
    ELSE [Str(node.text) EXCEPT !.id = 2]

RECURSIVE construct(_, _)
construct(node, cached) ==
    IF node.kind = "scalar" THEN construct_scalar(node, cached)
    ELSE Dict([i \in DOMAIN node.items |->
                 [k |-> node.items[i].k, v |-> construct(node.items[i].v, cached)]])

safe_load(f, cached) ==
    IF f.kind = "invalid" THEN Result("YAMLError", f, None)
    ELSE Result("", f, construct(f, cached))

---------------------------------------------------------------------------
(* save, parse_config, load_overrides *)

\* The dict c that save builds (config.py:142-147).
save_dict(groups) ==
    LET section(group) ==
            LET uv == updated_vars(group)
            IN  [i \in DOMAIN uv |-> [k |-> uv[i].name, v |-> uv[i].value]]
        kept == SelectSeq(groups, LAMBDA e : section(e.v) # <<>>)
    IN  [i \in DOMAIN kept |-> [k |-> kept[i].k, v |-> section(kept[i].v)]]

save(groups) == safe_dump(save_dict(groups))

\* The inner loop of parse_config (config.py:164-166), from entry i on.
RECURSIVE parse_section(_, _, _)
parse_section(group, items, i) ==
    IF i > Len(items) THEN Result("", group, None)
    ELSE LET key == items[i].k
             val == items[i].v
             g1 == update(group, key, None, None, None).obj
             r == __setattr__(g1, key, val)
         IN  IF r.exc # "" THEN r ELSE parse_section(r.obj, items, i + 1)

\* The outer loop of parse_config (config.py:161-166), from entry i on.
RECURSIVE parse_sections(_, _, _)
parse_sections(groups, items, i) ==
    IF i > Len(items) THEN Result("", groups, None)
    ELSE LET section_name == items[i].k
             section == items[i].v
             got == get_group(groups, section_name)
         IN  IF section.t # "dict"
             THEN Result("AttributeError", got.obj, None)
             ELSE LET r == parse_section(got.ret, section.items, 1)
                      groups2 == DictSet(got.obj, section_name, r.obj)
                  IN  IF r.exc # "" THEN Result(r.exc, groups2, None)
                      ELSE parse_sections(groups2, items, i + 1)

\* parse_config never raises: exc is what its except clause caught and
\* logged, obj the registry as the call leaves it.
parse_config(groups, f, cached) ==
    LET c == safe_load(f, cached)
    IN  IF c.exc # "" THEN Result(c.exc, groups, None)
        ELSE IF c.ret.t # "dict" THEN Result("AttributeError", groups, None)
        ELSE parse_sections(groups, c.ret.items, 1)

\* itertools.product of two lists, the last one turning fastest.
product(A, B) ==
    [i \in 1 .. (Len(A) * Len(B)) |->
        <<A[((i - 1) \div Len(B)) + 1], B[((i - 1) % Len(B)) + 1]>>]

\* A path is <<directory, prefix, name>>: os.path.join(directory, prefix + name).
NoPath == <<>>
possible_names == <<"mcore.yml", "manticore.yml">>
default_names ==
    LET xs == product(<<"", ".">>, possible_names)
    IN  [i \in DOMAIN xs |-> <<".", xs[i][1], xs[i][2]>>]

\* The default paths as the docstring of load_overrides lists them
\* (config.py:178): ./mcore.yml, ./.mcore.yml, ./manticore.yml, ./.manticore.yml.
DocumentedNames ==
    <<<<".", "", "mcore.yml">>, <<".", ".", "mcore.yml">>,
      <<".", "", "manticore.yml">>, <<".", ".", "manticore.yml">>>>

\* The names load_overrides tries, in order.
names(path) == IF path # NoPath THEN <<path>> ELSE default_names

\* The first name that opens, or NoPath when open raises FileNotFoundError
\* for every one of them.
opened(files, path) ==
    LET ns == names(path)
        found == {i \in DOMAIN ns : files[ns[i]].exists}
    IN  IF found = {} THEN NoPath
        ELSE ns[CHOOSE i \in found : \A j \in found : i <= j]

\* a load_overrides whose for/else never raises
load_overrides_silent(groups, files, path, cached) ==
    LET name == opened(files, path)
    IN  IF name = NoPath
        THEN [exc |-> "", obj |-> groups, opened |-> NoPath, logged |-> FALSE]
        ELSE LET r == parse_config(groups, files[name].doc, cached)
             IN  [exc |-> "", obj |-> r.obj, opened |-> name, logged |-> r.exc # ""]

\* a load_overrides that goes on to the next name when parse_config logged
load_overrides_until_parsed(groups, files, path, cached) ==
    LET ns == names(path)
        name == opened(files, path)
        RECURSIVE try(_, _)
        try(gs, i) ==
            IF i > Len(ns) THEN gs
            ELSE IF ~ files[ns[i]].exists THEN try(gs, i + 1)
            ELSE LET r == parse_config(gs, files[ns[i]].doc, cached)
                 IN  IF r.exc # "" THEN try(r.obj, i + 1) ELSE r.obj
    IN  IF name = NoPath
        THEN [exc |-> IF path # NoPath THEN "FileNotFoundError" ELSE "",
              obj |-> groups, opened |-> NoPath, logged |-> FALSE]
        ELSE [exc |-> "", obj |-> try(groups, 1), opened |-> name,
              logged |-> parse_config(groups, files[name].doc, cached).exc # ""]

\* load_overrides: [exc, obj: the registry afterwards, ret: None], with the
\* path read and whether parse_config logged its error.
load_overrides(groups, files, path, cached) ==
    LET name == opened(files, path)
    IN  IF name = NoPath
        THEN [exc |-> IF path # NoPath THEN "FileNotFoundError" ELSE "",
              obj |-> groups, opened |-> NoPath, logged |-> FALSE]
        ELSE LET r == parse_config(groups, files[name].doc, cached)
             IN  [exc |-> "", obj |-> r.obj, opened |-> name, logged |-> r.exc # ""]

\* add_config_vars_to_argparse without the variables a file or an update
\* introduced
add_config_vars_to_argparse_defined(args, groups) ==
    LET flags(e) ==
            LET objs == SelectSeq(DictValues(e.v._vars), LAMBDA obj : obj.defined)
            IN  [i \in DOMAIN objs |->
                   [name |-> <<e.k, objs[i].name>>, type |-> objs[i].default.t,
                    default |-> objs[i].default, help |-> objs[i].description]]
        RECURSIVE cat(_)
        cat(i) == IF i > Len(groups) THEN <<>> ELSE flags(groups[i]) \o cat(i + 1)
    IN  args \o cat(1)

\* add_config_vars_to_argparse(args): the flags of the parser afterwards.  A
\* flag is [name: <<group, key>> for "--group.key", type, default, help].
add_config_vars_to_argparse(args, groups) ==
    LET flags(e) ==
            LET keys == DictKeys(e.v._vars)
                obj(key) == DictGet(e.v._vars, key)
            IN  [i \in DOMAIN keys |->
                   [name |-> <<e.k, keys[i]>>, type |-> obj(keys[i]).default.t,
                    default |-> obj(keys[i]).default, help |-> obj(keys[i]).description]]
        RECURSIVE cat(_)
        cat(i) == IF i > Len(groups) THEN <<>> ELSE flags(groups[i]) \o cat(i + 1)
    IN  args \o cat(1)

\* str(value), as an f-string writes it.
str(v) == v.c

\* describe_options without the test of obj.defined
describe_options_all(groups) ==
    LET block(group_name, obj) ==
            [name |-> <<group_name, obj.name>>, default |-> str(obj.default),
             description |-> str(obj.description)]
        blocks(e) ==
            LET objs == DictValues(e.v._vars)
            IN  [i \in DOMAIN objs |-> block(e.k, objs[i])]
        RECURSIVE cat(_)
        cat(i) == IF i > Len(groups) THEN <<>> ELSE blocks(groups[i]) \o cat(i + 1)
    IN  cat(1)

\* describe_options: one block of three lines for each defined variable.
describe_options(groups) ==
    LET block(group_name, obj) ==
            [name |-> <<group_name, obj.name>>, default |-> str(obj.default),
             description |-> str(obj.description)]
        blocks(e) ==
            LET objs == SelectSeq(DictValues(e.v._vars), LAMBDA obj : obj.defined)
            IN  [i \in DOMAIN objs |-> block(e.k, objs[i])]
        RECURSIVE cat(_)
        cat(i) == IF i > Len(groups) THEN <<>> ELSE blocks(groups[i]) \o cat(i + 1)
    IN  cat(1)

---------------------------------------------------------------------------
(* the calls of a run *)

\* What the callers pass.
AddDefaults == {None, One}
AddDescriptions == {D1}
UpdateValues == {None, OneB, FortyTwo}
\* update's default and description: neither given, both empty, both new.
UpdateOptions == {<<None, None>>, <<Zero, NoText>>, <<FortyTwo, D2>>}
SetValues == {One, FortyTwo, Text1}

\* The files: the four default names, one more file that save writes and
\* an explicit path can name, and a path that names no file.
ExplicitPath == <<"/tmp", "", "saved.yml">>
MissingPath == <<"/nonexistent", "", "path">>
Paths == {default_names[i] : i \in DOMAIN default_names} \cup {ExplicitPath, MissingPath}
NoFile == [exists |-> FALSE, doc |-> Invalid]
File(doc) == [exists |-> TRUE, doc |-> doc]

NoCall ==
    [op |-> "", g |-> "", n |-> "", value |-> None, default |-> None,
     description |-> None, path |-> NoPath, exc |-> "", ret |-> None,
     group |-> _group(""), out |-> <<>>, opened |-> NoPath, logged |-> FALSE,
     prior |-> NoFile]

Step == nops < MaxOps /\ nops' = nops + 1

Init ==
    /\ _groups = <<>>
    /\ fs = [p \in Paths |-> NoFile]
    /\ last = NoCall
    /\ nops = 0
    /\ parser = <<>>

\* get_group(name)
GetGroup ==
    \E name \in GroupNames :
        LET r == get_group(_groups, name)
        IN  /\ Step
            /\ _groups' = r.obj
            /\ last' = [NoCall EXCEPT !.op = "get_group", !.g = name, !.group = r.ret]
            /\ UNCHANGED <<fs, parser>>

\* group.add(name, default, description), on a group get_group returned
Add ==
    \E g \in GroupNames, name \in VarNames, default \in AddDefaults,
       description \in AddDescriptions :
        /\ DictHas(_groups, g)
        /\ Step
        /\ LET r == add(DictGet(_groups, g), name, default, description)
           IN  /\ _groups' = DictSet(_groups, g, r.obj)
               /\ last' = [NoCall EXCEPT !.op = "add", !.g = g, !.n = name,
                                         !.default = default,
                                         !.description = description, !.exc = r.exc]
        /\ UNCHANGED <<fs, parser>>

\* group.update(name, value, default, description)
Update ==
    \E g \in GroupNames, name \in VarNames, value \in UpdateValues,
       option \in UpdateOptions :
        /\ DictHas(_groups, g)
        /\ Step
        /\ LET default == option[1]
               description == option[2]
               r == update(DictGet(_groups, g), name, value, default, description)
           IN  /\ _groups' = DictSet(_groups, g, r.obj)
               /\ last' = [NoCall EXCEPT !.op = "update", !.g = g, !.n = name,
                                         !.value = value, !.default = default,
                                         !.description = description, !.exc = r.exc]
        /\ UNCHANGED <<fs, parser>>

\* group.<name> = new_value
SetAttr ==
    \E g \in GroupNames, name \in VarNames, new_value \in SetValues :
        /\ DictHas(_groups, g)
        /\ Step
        /\ LET r == __setattr__(DictGet(_groups, g), name, new_value)
           IN  /\ _groups' = DictSet(_groups, g, r.obj)
               /\ last' = [NoCall EXCEPT !.op = "setattr", !.g = g, !.n = name,
                                         !.value = new_value, !.exc = r.exc]
        /\ UNCHANGED <<fs, parser>>

\* group.<name>
GetAttr ==
    \E g \in GroupNames, name \in VarNames :
        /\ DictHas(_groups, g)
        /\ Step
        /\ LET r == __getattr__(DictGet(_groups, g), name)
           IN  last' = [NoCall EXCEPT !.op = "getattr", !.g = g, !.n = name,
                                     !.exc = r.exc, !.ret = r.ret]
        /\ UNCHANGED <<_groups, fs, parser>>

\* group.get_description(name)
GetDescription ==
    \E g \in GroupNames, name \in VarNames :
        /\ DictHas(_groups, g)
        /\ Step
        /\ LET r == get_description(DictGet(_groups, g), name)
           IN  last' = [NoCall EXCEPT !.op = "get_description", !.g = g, !.n = name,
                                     !.exc = r.exc, !.ret = r.ret]
        /\ UNCHANGED <<_groups, fs, parser>>

\* describe_options()
DescribeOptions ==
    /\ Step
    /\ last' = [NoCall EXCEPT !.op = "describe_options",
                              !.out = describe_options(_groups)]
    /\ UNCHANGED <<_groups, fs, parser>>

\* a save that takes what it wrote for the new defaults
SaveTo_clearing(path) ==
    /\ Step
    /\ fs' = [fs EXCEPT ![path] = File(save(_groups))]
    /\ last' = [NoCall EXCEPT !.op = "save", !.path = path, !.prior = fs[path]]
    /\ _groups' = [i \in DOMAIN _groups |->
                     LET vs == _groups[i].v._vars
                     IN  [k |-> _groups[i].k,
                          v |-> [name |-> _groups[i].v.name,
                                 _vars |-> [j \in DOMAIN vs |->
                                     [k |-> vs[j].k,
                                      v |-> [vs[j].v EXCEPT !.default = vs[j].v.value]]]]]]
    /\ UNCHANGED parser

\* save(f), f a stream opened for writing on path; prior is what the path
\* held before
SaveTo(path) ==
    /\ Step
    /\ fs' = [fs EXCEPT ![path] = File(save(_groups))]
    /\ last' = [NoCall EXCEPT !.op = "save", !.path = path, !.prior = fs[path]]
    /\ UNCHANGED <<_groups, parser>>

Save == SaveTo(ExplicitPath)

\* add_config_vars_to_argparse(args), args a parser made for the call
AddConfigVarsToArgparse ==
    /\ Step
    /\ parser' = add_config_vars_to_argparse(<<>>, _groups)
    /\ last' = [NoCall EXCEPT !.op = "add_config_vars_to_argparse"]
    /\ UNCHANGED <<_groups, fs>>

\* load_overrides(path); path = NoPath is the call without a path
LoadFrom(paths) ==
    \E path \in paths, cached \in BOOLEAN :
        LET r == load_overrides(_groups, fs, path, cached)
        IN  /\ Step
            /\ _groups' = r.obj
            /\ last' = [NoCall EXCEPT !.op = "load_overrides", !.path = path,
                                      !.exc = r.exc, !.opened = r.opened,
                                      !.logged = r.logged]
            /\ UNCHANGED <<fs, parser>>

Load == LoadFrom({NoPath, ExplicitPath, MissingPath})

Next ==
    \/ GetGroup
    \/ Add
    \/ Update
    \/ SetAttr
    \/ GetAttr
    \/ GetDescription
    \/ DescribeOptions
    \/ Save
    \/ AddConfigVarsToArgparse
    \/ Load

Spec == Init /\ [][Next]_vars

---------------------------------------------------------------------------
(* Runs that start in a working directory that holds settings files.       *)

\* A well-formed file: section g sets x to the file's own name and the
\* variable "name" to its prefix, so that what a load wrote tells the file.
GoodDoc(path) ==
    Mapping(<<[k |-> "g", v |-> Mapping(<<[k |-> "x", v |-> Scalar("plain", path[3])],
                                          [k |-> "name", v |-> Scalar("quoted", path[2])]>>)]>>)
\* The same followed by a section that is no mapping ("h: oops").
HalfDoc(path) ==
    Mapping(GoodDoc(path).items \o <<[k |-> "h", v |-> Scalar("plain", "oops")]>>)
\* A document that is one scalar, and one whose first section is no mapping.
ScalarDoc == Scalar("plain", "oops")
FlatDoc == Mapping(<<[k |-> "h", v |-> Scalar("plain", "oops")]>>)

MalformedDocs(path) == {Invalid, ScalarDoc, FlatDoc, HalfDoc(path)}

DefaultPaths == {default_names[i] : i \in DOMAIN default_names}

\* Either any of the default names is there, well-formed or half so, or
\* the explicit path holds some document.
InitLoad ==
    /\ _groups = <<>>
    /\ \/ \E d \in [DefaultPaths -> {"absent", "good", "half"}] :
             fs = [p \in Paths |->
                     IF p \notin DefaultPaths \/ d[p] = "absent" THEN NoFile
                     ELSE IF d[p] = "good" THEN File(GoodDoc(p))
                     ELSE File(HalfDoc(p))]
       \/ \E doc \in MalformedDocs(ExplicitPath) \cup {GoodDoc(ExplicitPath)} :
             fs = [p \in Paths |-> IF p = ExplicitPath THEN File(doc) ELSE NoFile]
    /\ last = NoCall
    /\ nops = 0
    /\ parser = <<>>

\* The declarations made before a load.
AddOne ==
    \E g \in GroupNames :
        /\ DictHas(_groups, g)
        /\ Step
        /\ LET r == add(DictGet(_groups, g), "x", One, D1)
           IN  /\ _groups' = DictSet(_groups, g, r.obj)
               /\ last' = [NoCall EXCEPT !.op = "add", !.g = g, !.n = "x",
                                         !.default = One, !.description = D1,
                                         !.exc = r.exc]
        /\ UNCHANGED <<fs, parser>>

\* An update of x made before or after a load.
UpdateOne ==
    \E g \in GroupNames, option \in UpdateOptions :
        /\ DictHas(_groups, g)
        /\ Step
        /\ LET default == option[1]
               description == option[2]
               r == update(DictGet(_groups, g), "x", FortyTwo, default, description)
           IN  /\ _groups' = DictSet(_groups, g, r.obj)
               /\ last' = [NoCall EXCEPT !.op = "update", !.g = g, !.n = "x",
                                         !.value = FortyTwo, !.default = default,
                                         !.description = description, !.exc = r.exc]
        /\ UNCHANGED <<fs, parser>>

NextLoad ==
    \/ GetGroup
    \/ AddOne
    \/ UpdateOne
    \/ Load

SpecLoad == InitLoad /\ [][NextLoad]_vars

---------------------------------------------------------------------------
(* The properties checked *)

HasVar(groups, g, n) == DictHas(groups, g) /\ DictHas(DictGet(groups, g)._vars, n)
Var(groups, g, n) == DictGet(DictGet(groups, g)._vars, n)
\* Every entry of the registry but variable n of group g is the same in a and b.
SameBut(a, b, g, n) ==
    /\ DictKeys(a) = DictKeys(b)
    /\ \A i \in DOMAIN a :
          IF a[i].k # g THEN a[i] = b[i]
          ELSE \A m \in VarNames \ {n} :
                  /\ DictHas(a[i].v._vars, m) <=> DictHas(b[i].v._vars, m)
                  /\ DictHas(a[i].v._vars, m) =>
                        DictGet(a[i].v._vars, m) = DictGet(b[i].v._vars, m)

\* C1: add(name, default, description) raises ConfigError whenever name is
\* already in the group, however it got there, and then changes nothing;
\* otherwise it raises nothing and the group has a new variable name whose
\* value and default are the given default object and whose defined flag is
\* true, everything else being as before.
C1_AddContract ==
    [][last'.op = "add" =>
        IF HasVar(_groups, last'.g, last'.n)
        THEN last'.exc = "ConfigError" /\ _groups' = _groups
        ELSE /\ last'.exc = ""
             /\ HasVar(_groups', last'.g, last'.n)
             /\ Var(_groups', last'.g, last'.n) =
                    [name |-> last'.n, description |-> last'.description,
                     value |-> last'.default, default |-> last'.default,
                     defined |-> TRUE]
             /\ SameBut(_groups, _groups', last'.g, last'.n)]_vars

\* C1: an add that raised on a name that an update or a load had put there.
C1_Witness ==
    /\ last.op = "add"
    /\ last.exc = "ConfigError"
    /\ ~ Var(_groups, last.g, last.n).defined

\* C2 as stated: after update(name, v) the read group.name returns the
\* object v and was_set is true, for every name and every v.
C2_Original ==
    last.op = "update" =>
        LET group == DictGet(_groups, last.g)
        IN  /\ __getattr__(group, last.n) = Result("", group, last.value)
            /\ was_set(Var(_groups, last.g, last.n))

\* C2 amended: after update(name, v), for a name that is no attribute of
\* the group object itself, the read group.name returns the object v; and
\* was_set is true exactly when v is not the very object that is the
\* variable's default after the call, so it is true for another object that
\* is equal to the default.
C2_UpdateThenRead ==
    last.op = "update" =>
        LET group == DictGet(_groups, last.g)
            var == Var(_groups, last.g, last.n)
        IN  /\ last.exc = ""
            /\ last.n # "name" => __getattr__(group, last.n) = Result("", group, last.value)
            /\ was_set(var) <=> last.value # var.default
            /\ (Eq(last.value, var.default) /\ last.value.id # var.default.id)
                  => was_set(var)

\* C2: an update to a second object equal to the declared default.
C2_Witness ==
    /\ last.op = "update"
    /\ last.value = OneB
    /\ Var(_groups, last.g, last.n).default = One
    /\ was_set(Var(_groups, last.g, last.n))

\* The registry of a new process that has made the declarations of this
\* one again: every variable with its default and description, unset.
Redeclared(groups) ==
    [i \in DOMAIN groups |->
        [k |-> groups[i].k,
         v |-> [groups[i].v EXCEPT !._vars =
                  [j \in DOMAIN @ |->
                     [k |-> @[j].k,
                      v |-> _var(@[j].v.name, @[j].v.default, @[j].v.description, TRUE)]]]]]

\* C3: when save has written the registry to a file, load_overrides of that
\* file into a new registry, empty or with the declarations made again,
\* raises nothing, logs nothing and gives every variable that was set when
\* saving, under the same group and name, a value equal to the saved one.
C3_RoundTrip ==
    last.op = "save" =>
        \A fresh \in {<<>>, Redeclared(_groups)}, cached \in BOOLEAN :
            LET r == load_overrides(fresh, fs, last.path, cached)
            IN  /\ r.exc = "" /\ ~ r.logged /\ r.opened = last.path
                /\ \A g \in GroupNames, n \in VarNames :
                      (HasVar(_groups, g, n) /\ was_set(Var(_groups, g, n))) =>
                          /\ HasVar(r.obj, g, n)
                          /\ Eq(Var(r.obj, g, n).value, Var(_groups, g, n).value)

\* C3: the spec's example, x declared with default 1 and set to 42, saved;
\* and a saved string that reads as a number.
C3_Witness ==
    /\ last.op = "save"
    /\ \E g \in GroupNames :
          /\ HasVar(_groups, g, "x")
          /\ Var(_groups, g, "x").defined
          /\ Var(_groups, g, "x").default = One
          /\ Var(_groups, g, "x").value = FortyTwo

\* C4 as stated: a load whose parsing or traversal failed (parse_config
\* logged its error) raises nothing and leaves the registry as it was.
C4_MalformedLeavesRegistry ==
    [][(last'.op = "load_overrides" /\ last'.logged) =>
          (last'.exc = "" /\ _groups' = _groups)]_vars

\* The first of the documented default paths that is a file, or NoPath.
FirstDocumented(files) ==
    LET found == {i \in DOMAIN DocumentedNames : files[DocumentedNames[i]].exists}
    IN  IF found = {} THEN NoPath
        ELSE DocumentedNames[CHOOSE i \in found : \A j \in found : i <= j]

\* C5 as stated: load_overrides() without a path reads the first file there
\* is in the order ./mcore.yml, ./.mcore.yml, ./manticore.yml, ./.manticore.yml.
C5_DocumentedOrder ==
    (last.op = "load_overrides" /\ last.path = NoPath) =>
        last.opened = FirstDocumented(fs)

\* C6: load_overrides(path) with a path that is no file raises
\* FileNotFoundError and leaves the registry as it was; load_overrides()
\* with none of the default files there raises nothing and leaves the
\* registry as it was.
C6_Misses ==
    [][last'.op = "load_overrides" =>
        /\ (last'.path # NoPath /\ ~ fs[last'.path].exists) =>
              (last'.exc = "FileNotFoundError" /\ _groups' = _groups)
        /\ (last'.path = NoPath /\ \A p \in DefaultPaths : ~ fs[p].exists) =>
              (last'.exc = "" /\ ~ last'.logged /\ _groups' = _groups)]_vars

\* C6: a load of a path that is no file has raised, with a registry that
\* holds a declared variable.
C6_Witness ==
    /\ last.op = "load_overrides"
    /\ last.path = MissingPath
    /\ last.exc = "FileNotFoundError"
    /\ \E g \in GroupNames : HasVar(_groups, g, "x")

\* C7: group.name = v for a name that is not in the group raises and
\* changes nothing: no variable is created, none is changed.
C7_SetUnknown ==
    [][(last'.op = "setattr" /\ ~ HasVar(_groups, last'.g, last'.n)) =>
          (last'.exc = "KeyError" /\ _groups' = _groups)]_vars

\* C7: such a write has failed in a group that holds another variable.
C7_Witness ==
    /\ last.op = "setattr"
    /\ last.exc = "KeyError"
    /\ ~ HasVar(_groups, last.g, last.n)
    /\ DictGet(_groups, last.g)._vars # <<>>

\* The qualified names describe_options wrote, in order.
Listed(out) == [i \in DOMAIN out |-> out[i].name]
\* The qualified names of the variables whose defined flag is true, in
\* the order of the registry.
DefinedNames(groups) ==
    LET RECURSIVE of(_, _)
        of(i, j) ==
            IF i > Len(groups) THEN <<>>
            ELSE IF j > Len(groups[i].v._vars) THEN of(i + 1, 1)
            ELSE LET e == groups[i].v._vars[j]
                 IN  (IF e.v.defined THEN <<<<groups[i].k, e.k>>>> ELSE <<>>) \o of(i, j + 1)
    IN  of(1, 1)
InSeq(x, seq) == \E i \in DOMAIN seq : seq[i] = x

\* C8 as stated, its second half: a name that an update introduced appears in
\* describe_options once it is declared explicitly afterwards.
C8_RedeclaredAppears ==
    [][(last'.op = "add" /\ HasVar(_groups, last'.g, last'.n)
            /\ ~ Var(_groups, last'.g, last'.n).defined) =>
          InSeq(<<last'.g, last'.n>>, Listed(describe_options(_groups')))]_vars

\* C8 amended: describe_options lists exactly the variables whose defined
\* flag is true, with their default and description; a variable that an
\* update introduced is not among them, and declaring its name afterwards
\* does not put it there: the add raises ConfigError and the flag stays
\* false.
C8_DescribeDefined ==
    [][/\ last'.op = "describe_options" =>
            /\ Listed(last'.out) = DefinedNames(_groups')
            /\ \A i \in DOMAIN last'.out :
                  LET var == Var(_groups', last'.out[i].name[1], last'.out[i].name[2])
                  IN  /\ last'.out[i].default = var.default.c
                      /\ last'.out[i].description = var.description.c
       /\ (last'.op = "update" /\ ~ HasVar(_groups, last'.g, last'.n)) =>
            ~ InSeq(<<last'.g, last'.n>>, Listed(describe_options(_groups')))
       /\ (last'.op = "add" /\ HasVar(_groups, last'.g, last'.n)
              /\ ~ Var(_groups, last'.g, last'.n).defined) =>
            /\ last'.exc = "ConfigError"
            /\ ~ InSeq(<<last'.g, last'.n>>, Listed(describe_options(_groups')))]_vars

\* C8: describe_options has listed a declared variable and left out one
\* that an update made.
C8_Witness ==
    /\ last.op = "describe_options"
    /\ last.out # <<>>
    /\ \E g \in GroupNames, n \in VarNames :
          /\ HasVar(_groups, g, n)
          /\ ~ Var(_groups, g, n).defined
          /\ ~ InSeq(<<g, n>>, Listed(last.out))

\* The scalar written for key n of section g of a document, if there is one.
DocHas(doc, g, n) ==
    /\ doc.kind = "map"
    /\ DictHas(doc.items, g)
    /\ DictHas(DictGet(doc.items, g).items, n)
DocGet(doc, g, n) == DictGet(DictGet(doc.items, g).items, n)

\* C9: the file save writes holds, for every group, exactly the variables
\* of the group whose value is not the very object that is their default,
\* each under its name with its current value; it holds no other section
\* or key, and no section without a key.
C9_SaveWritesSet ==
    last.op = "save" =>
        LET doc == fs[last.path].doc
        IN  /\ fs[last.path].exists
            /\ doc.kind = "map"
            /\ \A i \in DOMAIN doc.items :
                  /\ doc.items[i].k \in GroupNames
                  /\ doc.items[i].v.kind = "map"
                  /\ doc.items[i].v.items # <<>>
                  /\ \A j \in DOMAIN doc.items[i].v.items :
                        doc.items[i].v.items[j].k \in VarNames
            /\ \A g \in GroupNames, n \in VarNames :
                  /\ DocHas(doc, g, n) <=>
                        (HasVar(_groups, g, n) /\
                            Var(_groups, g, n).value # Var(_groups, g, n).default)
                  /\ DocHas(doc, g, n) =>
                        DocGet(doc, g, n) = represent(Var(_groups, g, n).value)

\* C9: a save of a group that holds a variable that was set and one whose
\* value is still its default.
C9_Witness ==
    /\ last.op = "save"
    /\ \E g \in GroupNames, n \in VarNames, m \in VarNames :
          /\ HasVar(_groups, g, n) /\ HasVar(_groups, g, m)
          /\ DocHas(fs[last.path].doc, g, n)
          /\ Var(_groups, g, m).value = Var(_groups, g, m).default

\* C10 as stated: the default of a declared variable is the same object
\* after every call.
C10_DefaultNeverChanges ==
    [][\A g \in GroupNames, n \in VarNames :
          (HasVar(_groups, g, n) /\ Var(_groups, g, n).defined) =>
              /\ HasVar(_groups', g, n)
              /\ Var(_groups', g, n).default = Var(_groups, g, n).default]_vars

\* C10 amended: the default of a variable stays the same object over every
\* attribute write, every load and every update that gives no default or
\* a false one (None, 0, ""); an update that gives a true default makes it
\* the variable's default.
C10_DefaultChangesOnlyByUpdate ==
    [][\A g \in GroupNames, n \in VarNames :
          HasVar(_groups, g, n) =>
              /\ HasVar(_groups', g, n)
              /\ Var(_groups', g, n).default =
                    IF /\ last'.op = "update" /\ last'.g = g /\ last'.n = n
                       /\ Truthy(last'.default)
                    THEN last'.default
                    ELSE Var(_groups, g, n).default]_vars

\* C10: a variable declared with default 1 has been through an update that
\* gave the default 0 and still has its default.
C10_Witness ==
    /\ last.op = "update"
    /\ last.default = Zero
    /\ Var(_groups, last.g, last.n).default = One

\* C11: a variable that add has just created is not set, whatever its
\* default; and a declared variable that is not set stays there and stays
\* not set over every call that is no update of it, no attribute write to it
\* and no load of a file that holds it (a load updates and writes it).
C11_DeclaredNotSet ==
    [][/\ (last'.op = "add" /\ last'.exc = "") =>
            ~ was_set(Var(_groups', last'.g, last'.n))
       /\ \A g \in GroupNames, n \in VarNames :
            (/\ HasVar(_groups, g, n)
             /\ Var(_groups, g, n).defined
             /\ ~ was_set(Var(_groups, g, n))
             /\ ~ (last'.op \in {"update", "setattr"} /\ last'.g = g /\ last'.n = n)
             /\ ~ (/\ last'.op = "load_overrides"
                   /\ last'.opened # NoPath
                   /\ DocHas(fs[last'.opened].doc, g, n))) =>
                (HasVar(_groups', g, n) /\ ~ was_set(Var(_groups', g, n)))]_vars

\* C11: a variable declared with default 1 is still not set after an update
\* or an attribute write that went to another variable.
C11_Witness ==
    /\ last.op \in {"update", "setattr"}
    /\ last.exc = ""
    /\ \E g \in GroupNames, n \in VarNames :
          /\ <<g, n>> # <<last.g, last.n>>
          /\ HasVar(_groups, g, n)
          /\ Var(_groups, g, n).defined
          /\ Var(_groups, g, n).default = One
          /\ ~ was_set(Var(_groups, g, n))

\* C12: update raises nothing, whether the name was in the group or not,
\* and the variable it leaves has its defined flag false, also when add had
\* created it.
C12_UpdateUndefines ==
    [][last'.op = "update" =>
          /\ last'.exc = ""
          /\ HasVar(_groups', last'.g, last'.n)
          /\ ~ Var(_groups', last'.g, last'.n).defined
          /\ HasVar(_groups, last'.g, last'.n) =>
                Len(DictGet(_groups', last'.g)._vars) = Len(DictGet(_groups, last'.g)._vars)]_vars

\* C12: an update of a variable that add had created: it still has the
\* default and the description of its declaration.
C12_Witness ==
    /\ last.op = "update"
    /\ Var(_groups, last.g, last.n).default = One
    /\ Var(_groups, last.g, last.n).description = D1
    /\ ~ Var(_groups, last.g, last.n).defined

\* C13: get_group(name) for a name the registry does not hold appends one
\* empty group under that name and returns it; for a name it holds it
\* returns the group stored, with its variables, and changes nothing; and no
\* call ever removes a group or a variable.
C13_GetOrCreate ==
    [][/\ last'.op = "get_group" =>
            IF DictHas(_groups, last'.g)
            THEN /\ _groups' = _groups
                 /\ last'.group = DictGet(_groups, last'.g)
            ELSE /\ _groups' = Append(_groups, [k |-> last'.g, v |-> _group(last'.g)])
                 /\ last'.group = [name |-> last'.g, _vars |-> <<>>]
       /\ \A g \in GroupNames :
            DictHas(_groups, g) =>
                /\ DictHas(_groups', g)
                /\ \A n \in VarNames : HasVar(_groups, g, n) => HasVar(_groups', g, n)]_vars

\* C13: a later get_group has returned a group with the variables it has
\* gathered.
C13_Witness ==
    /\ last.op = "get_group"
    /\ last.group._vars # <<>>
    /\ last.group = DictGet(_groups, last.g)

\* The entries of seq that are in keep, in the order of seq.
Only(seq, keep) == SelectSeq(seq, LAMBDA k : InSeq(k, keep))

\* The names of the sections of a written file, and of the keys of a section.
Sections(doc) == DictKeys(doc.items)
Keys(doc, g) == DictKeys(DictGet(doc.items, g).items)

\* C14 as stated: save leaves the registry as it is, a save that follows a
\* save to the same path writes the same file again, and the file names the
\* groups, and the variables of each, in the order the registry holds them.
C14_InsertionOrder ==
    [][last'.op = "save" =>
          LET doc == fs'[last'.path].doc
          IN  /\ _groups' = _groups
              /\ (last.op = "save" /\ last.path = last'.path) => fs' = fs
              /\ Sections(doc) = Only(DictKeys(_groups), Sections(doc))
              /\ \A g \in GroupNames :
                    DictHas(doc.items, g) =>
                        Keys(doc, g) = Only(DictKeys(DictGet(_groups, g)._vars), Keys(doc, g))]_vars

\* C14: save leaves the registry as it is, so a save that follows a save to
\* the same path writes the very same file; the dict save hands to the
\* serializer is in the order the registry holds the names, and the file
\* names the groups, and the variables of each, in the sorted order of
\* their names.
C14_SaveTwice ==
    [][last'.op = "save" =>
          LET doc == fs'[last'.path].doc
              c == save_dict(_groups)
          IN  /\ _groups' = _groups
              /\ fs'[last'.path].exists
              /\ (last.op = "save" /\ last.path = last'.path) => fs' = fs
              /\ DictKeys(c) = Only(DictKeys(_groups), DictKeys(c))
              /\ \A i \in DOMAIN c :
                    DictKeys(c[i].v) =
                        Only(DictKeys(DictGet(_groups, c[i].k)._vars), DictKeys(c[i].v))
              /\ Sections(doc) = Only(Alphabet, DictKeys(c))
              /\ \A g \in GroupNames :
                    DictHas(doc.items, g) =>
                        Keys(doc, g) = Only(Alphabet, DictKeys(DictGet(c, g)))]_vars

\* C14: a save has written, over a file an earlier save wrote, the same
\* file again, with a variable in it.
C14_Witness ==
    /\ last.op = "save"
    /\ last.prior.exists
    /\ last.prior = fs[last.path]
    /\ fs[last.path].doc.items # <<>>

\* The error a second add of a name raises, and the error a load raises for
\* an explicit path that cannot be opened.
DuplicateKind == add(add(_group("g"), "x", One, D1).obj, "x", One, D1).exc
MissKind == load_overrides(<<>>, [p \in Paths |-> NoFile], MissingPath, FALSE).exc

\* C15: get_description(name), group.name and group.name = v, for a name
\* that is not in the group, all fail, with one and the same kind of error,
\* and that kind is neither the one a duplicate declaration raises nor the
\* one a load of a missing explicit path raises.
C15_OneUnknownKind ==
    (/\ last.op \in {"get_description", "getattr", "setattr"}
     /\ ~ HasVar(_groups, last.g, last.n)) =>
        LET group == DictGet(_groups, last.g)
        IN  /\ last.exc # ""
            /\ get_description(group, last.n).exc = last.exc
            /\ __getattr__(group, last.n).exc = last.exc
            /\ __setattr__(group, last.n, One).exc = last.exc
            /\ last.exc # DuplicateKind
            /\ last.exc # MissKind

\* The flags of the parser that are named --g.n.
Flags(g, n) == {i \in DOMAIN parser : parser[i].name = <<g, n>>}

\* C16: add_config_vars_to_argparse leaves the registry as it is and gives
\* the parser exactly one flag --group.name for every variable the registry
\* holds at the call, declared or not, with the variable's default as the
\* flag's default, the type of that default as its type and the
\* description as its help, and no other flag; no other operation adds a
\* flag, so a variable that appears later has none.
C16_OneFlagEach ==
    [][/\ last'.op = "add_config_vars_to_argparse" =>
            /\ _groups' = _groups
            /\ \A g \in GroupNames, n \in VarNames :
                  IF HasVar(_groups, g, n)
                  THEN /\ Cardinality(Flags(g, n)') = 1
                       /\ \A i \in Flags(g, n)' :
                             /\ parser'[i].default = Var(_groups, g, n).default
                             /\ parser'[i].type = Var(_groups, g, n).default.t
                             /\ parser'[i].help = Var(_groups, g, n).description
                  ELSE Flags(g, n)' = {}
            /\ \A i \in DOMAIN parser' :
                  parser'[i].name[1] \in GroupNames /\ parser'[i].name[2] \in VarNames
       /\ last'.op # "add_config_vars_to_argparse" => parser' = parser]_vars

\* C16: the parser has a flag for a variable that was only updated, and a
\* variable that appeared after the call has none.
C16_Witness ==
    /\ \E i \in DOMAIN parser :
          /\ HasVar(_groups, parser[i].name[1], parser[i].name[2])
          /\ ~ Var(_groups, parser[i].name[1], parser[i].name[2]).defined
    /\ \E g \in GroupNames, n \in VarNames : HasVar(_groups, g, n) /\ Flags(g, n) = {}

\* C17: an update of an existing variable that passes no description, or
\* an empty one, keeps the description the variable had, and likewise for
\* the default; and a load leaves every variable that existed with the
\* default and the description it had, also one whose value it takes from
\* the file, which then is the value the file gives.
C17_UpdateInherits ==
    [][/\ (last'.op = "update" /\ HasVar(_groups, last'.g, last'.n)) =>
            /\ ~ Truthy(last'.description) =>
                   Var(_groups', last'.g, last'.n).description =
                       Var(_groups, last'.g, last'.n).description
            /\ ~ Truthy(last'.default) =>
                   Var(_groups', last'.g, last'.n).default =
                       Var(_groups, last'.g, last'.n).default
            /\ Var(_groups', last'.g, last'.n).value = last'.value
       /\ last'.op = "load_overrides" =>
            \A g \in GroupNames, n \in VarNames :
                HasVar(_groups, g, n) =>
                    /\ HasVar(_groups', g, n)
                    /\ Var(_groups', g, n).default = Var(_groups, g, n).default
                    /\ Var(_groups', g, n).description = Var(_groups, g, n).description
                    /\ (last'.opened # NoPath /\ DocHas(fs[last'.opened].doc, g, n)) =>
                           Eq(Var(_groups', g, n).value,
                              construct_scalar(DocGet(fs[last'.opened].doc, g, n), FALSE))]_vars

\* C17: a load has given a declared variable the value of the file, and
\* the variable has the default and the description of its declaration.
C17_Witness ==
    /\ last.op = "load_overrides"
    /\ last.opened # NoPath
    /\ HasVar(_groups, "g", "x")
    /\ Var(_groups, "g", "x").default = One
    /\ Var(_groups, "g", "x").description = D1
    /\ Eq(Var(_groups, "g", "x").value, Str(last.opened[3]))
    /\ was_set(Var(_groups, "g", "x"))

\* C18: group.name = v on a variable the group holds raises nothing and
\* changes the value of that variable and nothing else: its default, its
\* description, its defined flag and its place in the group are the same,
\* and so is every other variable and group; a declared variable stays
\* declared, and listed by describe_options, through every call but an
\* update or a load.
C18_WriteChangesValueOnly ==
    [][/\ (last'.op = "setattr" /\ HasVar(_groups, last'.g, last'.n)) =>
            /\ last'.exc = ""
            /\ HasVar(_groups', last'.g, last'.n)
            /\ Var(_groups', last'.g, last'.n) =
                   [Var(_groups, last'.g, last'.n) EXCEPT !.value = last'.value]
            /\ SameBut(_groups, _groups', last'.g, last'.n)
            /\ DictKeys(DictGet(_groups', last'.g)._vars) =
                   DictKeys(DictGet(_groups, last'.g)._vars)
       /\ \A g \in GroupNames, n \in VarNames :
            (/\ HasVar(_groups, g, n)
             /\ Var(_groups, g, n).defined
             /\ last'.op \notin {"update", "load_overrides"}) =>
                /\ HasVar(_groups', g, n)
                /\ Var(_groups', g, n).defined
                /\ InSeq(<<g, n>>, Listed(describe_options(_groups')))]_vars

\* C18: an attribute write has given a declared variable a value that is
\* not its default, next to another variable, and describe_options lists it.
C18_Witness ==
    /\ last.op = "setattr"
    /\ last.exc = ""
    /\ Var(_groups, last.g, last.n).defined
    /\ was_set(Var(_groups, last.g, last.n))
    /\ Len(DictGet(_groups, last.g)._vars) = 2
    /\ InSeq(<<last.g, last.n>>, Listed(describe_options(_groups)))

\* Variable n of group g is new in registry b, or not what it is in a.
Touched(a, b, g, n) ==
    HasVar(b, g, n) /\ (HasVar(a, g, n) => Var(b, g, n) # Var(a, g, n))

\* C19: a load reads the first name of its list that can be opened and no
\* other, also when parse_config logs an error for that file: every group
\* the call creates is a section of that file, and every variable it
\* creates or changes is a key of that file and has the value that file
\* gives; when no name can be opened nothing is created or changed.
C19_OneResource ==
    [][last'.op = "load_overrides" =>
          LET ns == names(last'.path)
              doc == fs[last'.opened].doc
          IN  /\ IF \E i \in DOMAIN ns : fs[ns[i]].exists
                 THEN \E i \in DOMAIN ns :
                         /\ last'.opened = ns[i]
                         /\ fs[ns[i]].exists
                         /\ \A j \in 1..(i - 1) : ~ fs[ns[j]].exists
                 ELSE last'.opened = NoPath /\ _groups' = _groups
              /\ \A g \in GroupNames :
                    (DictHas(_groups', g) /\ ~ DictHas(_groups, g)) =>
                        /\ last'.opened # NoPath
                        /\ doc.kind = "map"
                        /\ DictHas(doc.items, g)
              /\ \A g \in GroupNames, n \in VarNames :
                    Touched(_groups, _groups', g, n) =>
                        /\ last'.opened # NoPath
                        /\ DocHas(doc, g, n)
                        /\ Eq(Var(_groups', g, n).value,
                              construct_scalar(DocGet(doc, g, n), FALSE))]_vars

\* C19: a load of the default names has logged an error for the file it
\* opened, a later name of the list is a well-formed file with other
\* values, and the registry has the values of the file that was opened.
C19_Witness ==
    /\ last.op = "load_overrides"
    /\ last.path = NoPath
    /\ last.logged
    /\ \E i, j \in DOMAIN default_names :
          /\ i < j
          /\ last.opened = default_names[i]
          /\ fs[default_names[j]] = File(GoodDoc(default_names[j]))
          /\ GoodDoc(default_names[j]) # GoodDoc(default_names[i])
    /\ HasVar(_groups, "g", "x")
    /\ Eq(Var(_groups, "g", "x").value, Str(last.opened[3]))
    /\ Eq(Var(_groups, "g", "name").value, Str(last.opened[2]))

====
